---- MODULE Spec2Model ----
(***************************************************************************)
(* Model of ArchiveCompatibilityChecker.py: a diagnostic plugin that the   *)
(* host application asks for the archives (.bsa/.ba2) that do not fit the  *)
(* active game.  Text (paths, names, extensions, descriptions) is a        *)
(* sequence of string tokens, file contents are sequences of bytes, and    *)
(* the enum members are the integers enum.auto() gives them.               *)
(***************************************************************************)
EXTENDS Integers, Sequences, FiniteSets, TLC

VARIABLES
    files,      \* the host's virtual file system, in findFiles order
    game,       \* organizer.managedGame().gameName()
    organizer,  \* self.__organizer
    archives,   \* self.__archives
    last,       \* the last call made: [op, key]
    ret,        \* what that call returned or raised: [kind, val]
    io,         \* the file-system accesses and internal calls of that call
    before      \* what that call found: the files, the list stored and, for
                \* activeProblems, the keys of a scan that returned just before

vars == <<files, game, organizer, archives, last, ret, io, before>>

\* ------------------------------------------------------------------ bounds

\* At most this many files in the virtual file system.
MaxFiles == 2

\* The longest file content, in bytes.
MaxSize == 9

\* ------------------------------------------------------------------- enums

NONE == 1
NOT_A_FILE == 2
WRONG_EXTENSION == 3
WRONG_FORMAT == 4

Problem == {NONE, NOT_A_FILE, WRONG_EXTENSION, WRONG_FORMAT}

UNKNOWN == 1
TES3 == 2
TES4 == 3
FO3 == 4
SSE == 5
FO4 == 6

FileFormat == {UNKNOWN, TES3, TES4, FO3, SSE, FO4}

ProblemArchive(path, problem) == [path |-> path, problem |-> problem]

Description(short, long) == [short |-> short, long |-> long]

\* -------------------------------------------------------------------- text

\* The position of the last c in s, 0 when there is none (str.rfind, 1-based).
RECURSIVE rfind(_, _)
rfind(s, c) ==
    IF s = <<>> THEN 0
    ELSE IF s[Len(s)] = c THEN Len(s)
    ELSE rfind(SubSeq(s, 1, Len(s) - 1), c)

\* pathlib.PurePath.name: the final component of the path.
PathName(path) == SubSeq(path, rfind(path, "/") + 1, Len(path))

\* pathlib.PurePath.suffix: the final component's last extension, dot included;
\* empty when the name has no dot, starts with its only dot or ends with a dot.
PathSuffix(path) ==
    LET name == PathName(path)
        i == rfind(name, ".")
    IN  IF 1 < i /\ i < Len(name) THEN SubSeq(name, i, Len(name)) ELSE <<>>

\* sep.join(parts)
RECURSIVE join(_, _)
join(sep, parts) ==
    IF parts = <<>> THEN <<>>
    ELSE IF Len(parts) = 1 THEN parts[1]
    ELSE parts[1] \o sep \o join(sep, Tail(parts))

\* long.format(arg): every long description ends with its one "{}".
format(long, arg) == long \o arg

\* ------------------------------------------------------------------ tables

descriptions ==
    [p \in {NOT_A_FILE, WRONG_EXTENSION, WRONG_FORMAT} |->
        CASE p = NOT_A_FILE ->
                Description(<<"Invalid archive file detected">>,
                            <<"The following archives are not valid files:">>)
          [] p = WRONG_EXTENSION ->
                Description(<<"Incompatible archive extensions detected">>,
                            <<"The following archives are using an extension meant for a different game:">>)
          [] p = WRONG_FORMAT ->
                Description(<<"Incompatible archive formats detected">>,
                            <<"The following archives are using the wrong format. They probably need to be repacked for the current game:">>)]

supportedGames ==
    {"Morrowind", "Oblivion", "Fallout 3", "New Vegas", "Skyrim", "Fallout 4",
     "Skyrim Special Edition", "Skyrim VR", "Fallout 4 VR"}

bsa == <<".", "b", "s", "a">>
ba2 == <<".", "b", "a", "2">>

gameToExt ==
    [g \in supportedGames |->
        IF g \in {"Fallout 4", "Fallout 4 VR"} THEN ba2 ELSE bsa]

\* A table in which one game keeps the default.
gameToFmt_default ==
    [g \in supportedGames |->
        CASE g = "Morrowind" -> TES3
          [] g = "Oblivion" -> TES4
          [] g \in {"Fallout 3", "New Vegas", "Skyrim"} -> FO3
          [] g \in {"Fallout 4", "Fallout 4 VR"} -> FO4
          [] g \in {"Skyrim Special Edition"} -> SSE
          [] OTHER -> UNKNOWN]

gameToFmt ==
    [g \in supportedGames |->
        CASE g = "Morrowind" -> TES3
          [] g = "Oblivion" -> TES4
          [] g \in {"Fallout 3", "New Vegas", "Skyrim"} -> FO3
          [] g \in {"Fallout 4", "Fallout 4 VR"} -> FO4
          [] g \in {"Skyrim Special Edition", "Skyrim VR"} -> SSE
          [] OTHER -> UNKNOWN]

MagicTES3 == 256          \* 0x100
MagicBSA == 4281154       \* 0x00415342
MagicBTDX == 1480873026   \* 0x58445442

magics ==
    [m \in {MagicTES3, MagicBSA, MagicBTDX} |->
        CASE m = MagicTES3 -> TES3
          [] m = MagicBSA -> TES4
          [] m = MagicBTDX -> FO4]

tes4Versions ==
    [v \in {103, 104, 105} |->
        CASE v = 103 -> TES4
          [] v = 104 -> FO3
          [] v = 105 -> SSE]

\* dict.get(key, default)
get(dict, key, default) == IF key \in DOMAIN dict THEN dict[key] ELSE default

\* struct.error, which no decoded number equals.
StructError == -1

\* A decoder that takes the bytes in the other order (">I").
u32_unpack_big(bytes) ==
    IF Len(bytes) # 4 THEN StructError
    ELSE bytes[4] + 256 * bytes[3] + 65536 * bytes[2] + 16777216 * bytes[1]

\* struct.Struct("<I").unpack(bytes)[0]: little-endian, unsigned, 32 bits;
\* struct.error unless the buffer holds exactly 4 bytes.
u32_unpack(bytes) ==
    IF Len(bytes) # 4 THEN StructError
    ELSE bytes[1] + 256 * bytes[2] + 65536 * bytes[3] + 16777216 * bytes[4]

\* ------------------------------------------------------------- file system

\* One access of the file system, or one internal call, with what it gave.
Ev(ev, path, off, n, out) ==
    [ev |-> ev, path |-> path, off |-> off, n |-> n, out |-> out]

\* path.open(mode): the event, and what opening does to the bytes of the file
\* (only a "w" mode truncates).
Open(path, mode) == Ev(mode, path, 0, 0, 0)
Opened(data, mode) == IF mode \in {"wb", "w+b"} THEN <<>> ELSE data

\* The files once the accesses of trace are made.
AfterIO(list, trace) ==
    [i \in DOMAIN list |->
        IF \E k \in DOMAIN trace :
              trace[k].path = list[i].path /\ trace[k].ev \in {"wb", "w+b"}
        THEN [list[i] EXCEPT !.data = Opened(list[i].data, "wb")]
        ELSE list[i]]

\* file.read(n) at position pos: the bytes there are, at most n of them.
FileRead(data, pos, n) ==
    SubSeq(data, pos + 1, IF pos + n < Len(data) THEN pos + n ELSE Len(data))

\* What a private method hands back: a value, or the exception it raised,
\* and the accesses it made.
Returned(val, trace) == [val |-> val, err |-> "", io |-> trace]
Raised(err, trace) == [val |-> 0, err |-> err, io |-> trace]

\* ----------------------------------------------------------------- sniffer

\* A call, the accesses it made and, unless it raised, its result.
Traced(call, result, path, r) ==
    [r EXCEPT !.io = <<Ev(call, path, 0, 0, 0)>> \o r.io
                     \o (IF r.err = "" THEN <<Ev(result, path, 0, 0, r.val)>>
                         ELSE <<>>)]

\* __getFileFormat, its last line: the version looked up.
fromVersion(version, trace) ==
    IF version = StructError THEN Raised("struct.error", trace)
    ELSE Returned(get(tes4Versions, version, UNKNOWN), trace)

\* A sniffer that reads the version without looking at the size again.
fromMagic_unsized(f, st_size, magic, trace) ==
    IF magic = StructError THEN Raised("struct.error", trace)
    ELSE IF get(magics, magic, UNKNOWN) = TES4 THEN
        fromVersion(u32_unpack(FileRead(f.data, 4, 4)),
                    trace \o <<Ev("read", f.path, 4, 4,
                                  Len(FileRead(f.data, 4, 4)))>>)
    ELSE Returned(get(magics, magic, UNKNOWN), trace)

\* __getFileFormat from the magic on: only the family of TES4 has a version.
fromMagic(f, st_size, magic, trace) ==
    IF magic = StructError THEN Raised("struct.error", trace)
    ELSE IF get(magics, magic, UNKNOWN) = TES4 THEN
        IF st_size < 8 THEN Returned(UNKNOWN, trace)
        ELSE fromVersion(u32_unpack(FileRead(f.data, 4, 4)),
                         trace \o <<Ev("read", f.path, 4, 4,
                                       Len(FileRead(f.data, 4, 4)))>>)
    ELSE Returned(get(magics, magic, UNKNOWN), trace)

\* A sniffer that opens the file for writing.
getFileFormat_wb(f) ==
    IF Len(f.data) < 4
    THEN Returned(UNKNOWN, <<Ev("stat", f.path, 0, 0, Len(f.data))>>)
    ELSE fromMagic(f, Len(f.data), u32_unpack(FileRead(f.data, 0, 4)),
                   <<Ev("stat", f.path, 0, 0, Len(f.data)),
                     Open(f.path, "w+b"),
                     Ev("read", f.path, 0, 4, Len(FileRead(f.data, 0, 4)))>>)

\* __getFileFormat(path): f is the file at path.
getFileFormat(f) ==
    IF Len(f.data) < 4
    THEN Returned(UNKNOWN, <<Ev("stat", f.path, 0, 0, Len(f.data))>>)
    ELSE fromMagic(f, Len(f.data), u32_unpack(FileRead(f.data, 0, 4)),
                   <<Ev("stat", f.path, 0, 0, Len(f.data)),
                     Open(f.path, "rb"),
                     Ev("read", f.path, 0, 4, Len(FileRead(f.data, 0, 4)))>>)

Sniffed(f) == Traced("getFileFormat", "FileFormat", f.path, getFileFormat(f))

\* -------------------------------------------------------------- validation

\* __validateArchive, its third test: s is what the sniffer gave.
formatProblem(g, s, trace) ==
    IF s.err # "" THEN Raised(s.err, trace \o s.io)
    ELSE IF g \notin DOMAIN gameToFmt THEN Raised("KeyError", trace \o s.io)
    ELSE IF s.val # gameToFmt[g] THEN Returned(WRONG_FORMAT, trace \o s.io)
    ELSE Returned(NONE, trace \o s.io)

\* A validation that looks at the header before the extension.
validateArchive_headerFirst(f, g) ==
    IF ~f.isFile
    THEN Returned(NOT_A_FILE, <<Ev("is_file", f.path, 0, 0, 0)>>)
    ELSE IF g \notin DOMAIN gameToExt
    THEN Raised("KeyError", <<Ev("is_file", f.path, 0, 0, 1)>>)
    ELSE IF Sniffed(f).val # gameToFmt[g]
    THEN Returned(WRONG_FORMAT, <<Ev("is_file", f.path, 0, 0, 1)>> \o Sniffed(f).io)
    ELSE IF PathSuffix(f.path) # gameToExt[g]
    THEN Returned(WRONG_EXTENSION, <<Ev("is_file", f.path, 0, 0, 1)>> \o Sniffed(f).io)
    ELSE Returned(NONE, <<Ev("is_file", f.path, 0, 0, 1)>> \o Sniffed(f).io)

\* A validation that never looks at the header.
validateArchive_noSniff(f, g) ==
    IF ~f.isFile
    THEN Returned(NOT_A_FILE, <<Ev("is_file", f.path, 0, 0, 0)>>)
    ELSE IF g \notin DOMAIN gameToExt
    THEN Raised("KeyError", <<Ev("is_file", f.path, 0, 0, 1)>>)
    ELSE IF PathSuffix(f.path) # gameToExt[g]
    THEN Returned(WRONG_EXTENSION, <<Ev("is_file", f.path, 0, 0, 1)>>)
    ELSE Returned(NONE, <<Ev("is_file", f.path, 0, 0, 1)>>)

\* __validateArchive(path) with __getCurrentGame() = g: f is the file at path.
validateArchive(f, g) ==
    IF ~f.isFile
    THEN Returned(NOT_A_FILE, <<Ev("is_file", f.path, 0, 0, 0)>>)
    ELSE IF g \notin DOMAIN gameToExt
    THEN Raised("KeyError", <<Ev("is_file", f.path, 0, 0, 1)>>)
    ELSE IF PathSuffix(f.path) # gameToExt[g]
    THEN Returned(WRONG_EXTENSION, <<Ev("is_file", f.path, 0, 0, 1)>>)
    ELSE formatProblem(g, Sniffed(f), <<Ev("is_file", f.path, 0, 0, 1)>>)

Validated(f, g) ==
    Traced("validateArchive", "Problem", f.path, validateArchive(f, g))

\* A loop that hands its archives over last file first.
yield_reversed(path, v, rest) ==
    IF v.err # "" THEN Raised(v.err, v.io)
    ELSE IF rest.err # "" THEN Raised(rest.err, v.io \o rest.io)
    ELSE Returned(rest.val \o (IF v.val # NONE
                               THEN <<ProblemArchive(path, v.val)>> ELSE <<>>),
                  v.io \o rest.io)

\* __listBadArchives, one turn of its loop: v is the validation of the file at
\* path, rest what the files after it yield; an exception ends the generator.
yield(path, v, rest) ==
    IF v.err # "" THEN Raised(v.err, v.io)
    ELSE IF rest.err # "" THEN Raised(rest.err, v.io \o rest.io)
    ELSE Returned((IF v.val # NONE THEN <<ProblemArchive(path, v.val)>> ELSE <<>>)
                  \o rest.val, v.io \o rest.io)

\* __listBadArchives() run to its end, as list() does in activeProblems: found
\* is what findFiles returned.
RECURSIVE listBadArchives(_, _)
listBadArchives(found, g) ==
    IF found = <<>> THEN Returned(<<>>, <<>>)
    ELSE yield(found[1].path, Validated(found[1], g),
               listBadArchives(Tail(found), g))

\* -------------------------------------------------------------- the plugin

None == "None"

Call(op, key) == [op |-> op, key |-> key]
Return(val) == [kind |-> "return", val |-> val]
Raise(err) == [kind |-> err, val |-> <<>>]

\* activeProblems was the last call and returned.
Listed == last.op = "activeProblems" /\ ret.kind = "return"

Range(q) == {q[i] : i \in DOMAIN q}

\* What a call finds: the files and the list stored.
Found == [files |-> files, archives |-> archives, listed |-> FALSE, keys |-> {}]

\* list(s) of a set s: its members once each, in the order the set iterates.
ListsOf(s) ==
    {q \in [1..Cardinality(s) -> s] : \A i, j \in DOMAIN q : q[i] = q[j] => i = j}

\* organizer.findFiles("", "*.b[sa][a2]")
findFiles == files

\* __getCurrentGame()
getCurrentGame == game

\* __init__(): no organizer, no archives.
Constructed ==
    /\ organizer = None
    /\ archives = <<>>
    /\ last = Call("__init__", 0)
    /\ ret = Return(<<>>)
    /\ io = <<>>
    /\ before = [files |-> files, archives |-> <<>>, listed |-> FALSE, keys |-> {}]

\* init(organizer)
init ==
    /\ organizer' = "IOrganizer"
    /\ last' = Call("init", 0)
    /\ ret' = Return(TRUE)
    /\ io' = <<>>
    /\ before' = Found
    /\ UNCHANGED <<files, game, archives>>

\* An assignment that adds to the list stored (self.__archives += ...).
assign_extend(r) ==
    /\ io' = r.io
    /\ files' = AfterIO(files, r.io)
    /\ IF r.err # ""
       THEN /\ ret' = Raise(r.err)
            /\ UNCHANGED archives
       ELSE /\ archives' = archives \o r.val
            /\ \E keys \in ListsOf({archives'[i].problem : i \in DOMAIN archives'}) :
                  ret' = Return(keys)

\* activeProblems(), its two statements: r is what the generator gave; the
\* list is assigned only when the generator ran to its end.
assign(r) ==
    /\ io' = r.io
    /\ files' = AfterIO(files, r.io)
    /\ IF r.err # ""
       THEN /\ ret' = Raise(r.err)
            /\ UNCHANGED archives
       ELSE /\ archives' = r.val
            /\ \E keys \in ListsOf({r.val[i].problem : i \in DOMAIN r.val}) :
                  ret' = Return(keys)

\* activeProblems()
activeProblems ==
    /\ last' = Call("activeProblems", 0)
    /\ before' = [Found EXCEPT !.listed = Listed,
                               !.keys = IF Listed THEN Range(ret.val) ELSE {}]
    /\ IF organizer = None
       THEN /\ ret' = Raise("AttributeError")
            /\ io' = <<>>
            /\ UNCHANGED <<files, archives>>
       ELSE assign(listBadArchives(findFiles, getCurrentGame))
    /\ UNCHANGED <<game, organizer>>

\* A listing that forgets the test on the problem.
RECURSIVE namesOf_all(_, _)
namesOf_all(list, problem) ==
    IF list = <<>> THEN <<>>
    ELSE <<PathName(list[1].path)>> \o namesOf_all(Tail(list), problem)

\* [x.path.name for x in self.__archives if x.problem == problem]
RECURSIVE namesOf(_, _)
namesOf(list, problem) ==
    IF list = <<>> THEN <<>>
    ELSE (IF list[1].problem = problem THEN <<PathName(list[1].path)>> ELSE <<>>)
         \o namesOf(Tail(list), problem)

\* What fullDescription(key) gives with the list stored (the bullet of the
\* source is written * here).
fullDescriptionOf(list, key) ==
    IF key \notin Problem THEN Raise("ValueError")
    ELSE IF key \in DOMAIN descriptions
    THEN Return(format(descriptions[key].long,
                       <<"<br><br>*  ">> \o join(<<"<br>*  ">>, namesOf(list, key))))
    ELSE Raise("IndexError")

\* fullDescription(key)
fullDescription(key) ==
    /\ last' = Call("fullDescription", key)
    /\ ret' = fullDescriptionOf(archives, key)
    /\ io' = <<>>
    /\ before' = Found
    /\ UNCHANGED <<files, game, organizer, archives>>

\* A hasGuidedFix without the test on NONE.
hasGuidedFix_any(key) ==
    /\ last' = Call("hasGuidedFix", key)
    /\ ret' = IF key \notin Problem THEN Raise("ValueError") ELSE Return(FALSE)
    /\ io' = <<>>
    /\ before' = Found
    /\ UNCHANGED <<files, game, organizer, archives>>

\* hasGuidedFix(key)
hasGuidedFix(key) ==
    /\ last' = Call("hasGuidedFix", key)
    /\ ret' = IF key \notin Problem THEN Raise("ValueError")
              ELSE IF key # NONE THEN Return(FALSE)
              ELSE Raise("IndexError")
    /\ io' = <<>>
    /\ before' = Found
    /\ UNCHANGED <<files, game, organizer, archives>>

\* shortDescription(key)
shortDescription(key) ==
    /\ last' = Call("shortDescription", key)
    /\ ret' = IF key \notin Problem THEN Raise("ValueError")
              ELSE IF key \in DOMAIN descriptions
              THEN Return(descriptions[key].short)
              ELSE Raise("IndexError")
    /\ io' = <<>>
    /\ before' = Found
    /\ UNCHANGED <<files, game, organizer, archives>>

\* startGuidedFix(key)
startGuidedFix(key) ==
    /\ last' = Call("startGuidedFix", key)
    /\ ret' = Raise("ValueError")
    /\ io' = <<>>
    /\ before' = Found
    /\ UNCHANGED <<files, game, organizer, archives>>

\* ---------------------------------------------------------------- the host

\* The keys the host may pass: the four members of Problem and, to
\* startGuidedFix, which does not look at its key, one that is none.
Keys == Problem
AnyKeys == Keys \cup {0}

Games == supportedGames \cup {"Enderal"}

File(path, isFile, data) == [path |-> path, isFile |-> isFile, data |-> data]

PathsOf(list) == {list[i].path : i \in DOMAIN list}

Remove(list, i) == SubSeq(list, 1, i - 1) \o SubSeq(list, i + 1, Len(list))

HostEvent ==
    /\ last' = Call("host", 0)
    /\ ret' = Return(<<>>)
    /\ io' = <<>>
    /\ before' = [Found EXCEPT !.files = files']
    /\ UNCHANGED <<organizer, archives>>

\* The host switches to another game.
HostSetGame(G) ==
    /\ \E g \in G \ {game} : game' = g
    /\ UNCHANGED files
    /\ HostEvent

\* A mod adds a file or a directory the enumeration will return.
HostAddFile(P, D) ==
    /\ Len(files) < MaxFiles
    /\ \E p \in P \ PathsOf(files), isFile \in BOOLEAN, d \in D :
          /\ ~isFile => d = <<>>
          /\ files' = Append(files, File(p, isFile, d))
    /\ HostEvent
    /\ UNCHANGED game

\* A file is rewritten in place.
HostWriteFile(D) ==
    /\ \E i \in DOMAIN files, d \in D :
          /\ files[i].isFile
          /\ d # files[i].data
          /\ files' = [files EXCEPT ![i].data = d]
    /\ HostEvent
    /\ UNCHANGED game

\* A file or directory is removed.
HostRemoveFile ==
    /\ \E i \in DOMAIN files : files' = Remove(files, i)
    /\ HostEvent
    /\ UNCHANGED game

\* ------------------------------------------------------------------ inputs

\* Paths the enumeration may return.
PathA == <<"m", "/", "a", ".", "b", "s", "a">>
PathA2 == <<"n", "/", "a", ".", "b", "s", "a">>
PathB == <<"m", "/", "b", ".", "b", "a", "2">>
PathUpper == <<"m", "/", "a", ".", "B", "S", "A">>
PathHidden == <<"m", "/", ".", "b", "s", "a">>
PathOther == <<"m", ".", "b", "a", "2", "/", "a", ".", "b", "s", "2">>

SpecPaths == {PathA, PathA2, PathB}
ScanPaths == SpecPaths \cup {PathUpper, PathHidden, PathOther}

BSA104 == <<66, 83, 65, 0, 104, 0, 0, 0>>

\* Headers: each known magic, each byte-swapped, and none of them.
SampleMagics ==
    {<<0, 1, 0, 0>>, <<0, 0, 1, 0>>, <<66, 83, 65, 0>>, <<0, 65, 83, 66>>,
     <<66, 84, 68, 88>>, <<88, 68, 84, 66>>, <<0, 0, 0, 0>>}

\* Versions: the known ones, an unknown one, one byte-swapped, and one that
\* differs from a known one in a high byte only.
SampleVersions ==
    {<<103, 0, 0, 0>>, <<104, 0, 0, 0>>, <<105, 0, 0, 0>>, <<106, 0, 0, 0>>,
     <<0, 0, 0, 103>>, <<103, 1, 0, 0>>}

Padding == [i \in 1 .. (MaxSize - 8) |-> 7]

\* File contents of every size up to MaxSize.
ScanContents ==
    {SubSeq(m \o v \o Padding, 1, n) :
        m \in SampleMagics, v \in SampleVersions, n \in 0 .. MaxSize}

SpecContents == {<<>>, BSA104}

\* The games of the host in Spec: a supported one and one that is not.
SpecGames == {"Fallout 3", "Enderal"}

ScanFiles ==
    {File(p, TRUE, d) : p \in ScanPaths, d \in ScanContents}
    \cup {File(p, FALSE, <<>>) : p \in ScanPaths}

\* What the enumeration may return beside one of ScanFiles.
OtherFiles ==
    {File(PathA2, FALSE, <<>>), File(PathA2, TRUE, BSA104),
     File(PathB, TRUE, <<66, 84, 68, 88>>)}

ScanLists ==
    {<<>>} \cup {<<f>> : f \in ScanFiles}
    \cup {<<f, o>> : f \in {x \in ScanFiles : x.path = PathA}, o \in OtherFiles}
    \cup {<<o, f>> : f \in {x \in ScanFiles : x.path = PathUpper}, o \in OtherFiles}

\* ---------------------------------------------------------- specifications

\* The plugin in its host: files come and go, the game changes, the host calls.
Init ==
    /\ files = <<>>
    /\ game \in SpecGames
    /\ Constructed

Next ==
    \/ init
    \/ activeProblems
    \/ \E key \in Keys : fullDescription(key)
    \/ \E key \in Keys : hasGuidedFix(key)
    \/ \E key \in Keys : shortDescription(key)
    \/ \E key \in AnyKeys : startGuidedFix(key)
    \/ HostSetGame(SpecGames)
    \/ HostAddFile(SpecPaths, SpecContents)
    \/ HostWriteFile(SpecContents)
    \/ HostRemoveFile

Spec == Init /\ [][Next]_vars

\* One scan of every file the enumeration may return, under every game.
ScanInit ==
    /\ files \in ScanLists
    /\ game \in Games
    /\ organizer = "IOrganizer"
    /\ archives = <<>>
    /\ last = Call("init", 0)
    /\ ret = Return(TRUE)
    /\ io = <<>>
    /\ before = [files |-> files, archives |-> <<>>, listed |-> FALSE, keys |-> {}]

ScanNext == activeProblems

ScanSpec == ScanInit /\ [][ScanNext]_vars

\* ------------------------------------------------------ what the claims use

\* activeProblems was the last call and reached the enumeration.
Scanned == last.op = "activeProblems" /\ ret.kind # "AttributeError"

\* The file at a path of the enumeration.
FileAt(path) == files[CHOOSE i \in DOMAIN files : files[i].path = path]

\* The events of some kinds, and those of one kind about one path, in order.
Events(kinds) == SelectSeq(io, LAMBDA e : e.ev \in kinds)
EventsAt(kind, path) == SelectSeq(io, LAMBDA e : e.ev = kind /\ e.path = path)

\* 0xAABBCCDD
Hex4(a, b, c, d) == ((a * 256 + b) * 256 + c) * 256 + d

\* Four bytes at offset off as a little-endian unsigned 32-bit number.
LittleEndian(data, off) ==
    Hex4(data[off + 4], data[off + 3], data[off + 2], data[off + 1])

\* The format of a header as the claims state it.
HeaderFormat(data) ==
    IF Len(data) < 4 THEN UNKNOWN
    ELSE IF LittleEndian(data, 0) = Hex4(0, 0, 1, 0) THEN TES3
    ELSE IF LittleEndian(data, 0) = Hex4(88, 68, 84, 66) THEN FO4
    ELSE IF LittleEndian(data, 0) = Hex4(0, 65, 83, 66) /\ Len(data) >= 8 THEN
        CASE LittleEndian(data, 4) = 103 -> TES4
          [] LittleEndian(data, 4) = 104 -> FO3
          [] LittleEndian(data, 4) = 105 -> SSE
          [] OTHER -> UNKNOWN
    ELSE UNKNOWN

HasVersionMagic(data) ==
    Len(data) >= 4 /\ LittleEndian(data, 0) = Hex4(0, 65, 83, 66)

\* ------------------------------------------------------------------ claims

\* C2: whenever the sniffer returns for a file that holds a magic (and, when
\* the magic is 0x00415342, a version), its result is the format of the first
\* 4 bytes read as a little-endian number, 0x100 TES3, 0x58445442 FO4,
\* 0x00415342 by the next 4 bytes (103 TES4, 104 FO3, 105 SSE), anything
\* else UNKNOWN; and bytes 4..7 are read only under magic 0x00415342.
C2_MagicDecides ==
    \A k \in DOMAIN io :
        /\ io[k].ev = "FileFormat" =>
              LET d == FileAt(io[k].path).data
              IN  (Len(d) >= 4 /\ (HasVersionMagic(d) => Len(d) >= 8))
                      => io[k].out = HeaderFormat(d)
        /\ (io[k].ev = "read" /\ io[k].off >= 4) =>
              HasVersionMagic(FileAt(io[k].path).data)

\* A file with magic 0x00415342 and version 105 was read and sniffed as SSE.
C2_Witness ==
    /\ \E k \in DOMAIN io :
          /\ io[k].ev = "FileFormat" /\ io[k].out = SSE
          /\ SubSeq(FileAt(io[k].path).data, 1, 8) = <<66, 83, 65, 0, 105, 0, 0, 0>>
          /\ EventsAt("read", io[k].path) # <<>>

\* C3: a sniff of a file of any size makes at most two reads, of 4 bytes
\* each, at offsets 0 and then 4, each of which gets its 4 bytes; it returns
\* a FileFormat and never raises; under 4 bytes it returns UNKNOWN without
\* opening or reading the file; under 8 bytes with magic 0x00415342 it
\* returns UNKNOWN after the one read of the magic.
C3_BoundedReads ==
    /\ ret.kind # "struct.error"
    /\ \A k \in DOMAIN io :
          io[k].ev = "getFileFormat" =>
              LET p == io[k].path
                  d == FileAt(p).data
                  reads == EventsAt("read", p)
                  result == EventsAt("FileFormat", p)
              IN  /\ Len(reads) <= 2
                  /\ \A r \in DOMAIN reads :
                        /\ reads[r].off = 4 * (r - 1)
                        /\ reads[r].n = 4
                        /\ reads[r].out = 4
                  /\ Len(result) = 1
                  /\ result[1].out \in FileFormat
                  /\ Len(d) < 4 =>
                        /\ reads = <<>>
                        /\ EventsAt("rb", p) = <<>>
                        /\ result[1].out = UNKNOWN
                  /\ (HasVersionMagic(d) /\ Len(d) < 8) =>
                        /\ Len(reads) = 1
                        /\ result[1].out = UNKNOWN

\* A file of 7 bytes with magic 0x00415342 was sniffed as UNKNOWN.
C3_Witness ==
    \E k \in DOMAIN io :
        /\ io[k].ev = "FileFormat"
        /\ io[k].out = UNKNOWN
        /\ Len(FileAt(io[k].path).data) = 7
        /\ HasVersionMagic(FileAt(io[k].path).data)

\* C7: each validated file gets one problem by precedence: NOT_A_FILE when
\* it is no regular file, else WRONG_EXTENSION when its suffix is not,
\* letter for letter, the extension of the game, else WRONG_FORMAT when the
\* sniffed format is not the format of the game, else NONE; the sniffer
\* runs, and the file is stat-ed, opened and read, only for a regular file
\* with the extension of the game.
C7_Precedence ==
    \A k \in DOMAIN io :
        LET f == FileAt(io[k].path)
        IN  /\ io[k].ev = "Problem" =>
                  /\ Len(EventsAt("Problem", f.path)) = 1
                  /\ io[k].out =
                        IF ~f.isFile THEN NOT_A_FILE
                        ELSE IF PathSuffix(f.path) # gameToExt[game]
                        THEN WRONG_EXTENSION
                        ELSE IF HeaderFormat(f.data) # gameToFmt[game]
                        THEN WRONG_FORMAT
                        ELSE NONE
            /\ io[k].ev \in {"getFileFormat", "stat", "rb", "read"} =>
                  /\ f.isFile
                  /\ game \in supportedGames
                  /\ PathSuffix(f.path) = gameToExt[game]

\* A regular file with the wrong extension and the wrong header was validated
\* as WRONG_EXTENSION without being sniffed, and its extension is the
\* expected one in capitals.
C7_Witness ==
    /\ Listed
    /\ game = "Oblivion"
    /\ \E i \in DOMAIN files :
          /\ files[i] = File(PathUpper, TRUE, <<66, 84, 68, 88>>)
          /\ ProblemArchive(PathUpper, WRONG_EXTENSION) \in Range(archives)
          /\ EventsAt("getFileFormat", PathUpper) = <<>>

\* C10: the tables have an entry for each of the nine supported games, the
\* extension is .ba2 for Fallout 4 and Fallout 4 VR and .bsa for the other
\* seven, the format is never UNKNOWN; under a supported game the scan
\* never raises KeyError, and a sniffed format of UNKNOWN is reported as
\* WRONG_FORMAT.
C10_TablesTotal ==
    /\ Cardinality(supportedGames) = 9
    /\ DOMAIN gameToExt = supportedGames
    /\ DOMAIN gameToFmt = supportedGames
    /\ \A g \in supportedGames :
          /\ gameToExt[g] = IF g \in {"Fallout 4", "Fallout 4 VR"}
                            THEN <<".", "b", "a", "2">>
                            ELSE <<".", "b", "s", "a">>
          /\ gameToFmt[g] \in {TES3, TES4, FO3, SSE, FO4}
    /\ (Scanned /\ game \in supportedGames) =>
          /\ ret.kind = "return"
          /\ \A k \in DOMAIN io :
                (io[k].ev = "FileFormat" /\ io[k].out = UNKNOWN) =>
                    ProblemArchive(io[k].path, WRONG_FORMAT) \in Range(archives)

\* Under Skyrim VR a .bsa file too short to hold a magic was sniffed as
\* UNKNOWN and reported as WRONG_FORMAT.
C10_Witness ==
    /\ Listed
    /\ game = "Skyrim VR"
    /\ \E i \in DOMAIN files :
          /\ files[i] = File(PathA, TRUE, <<66, 83, 65>>)
          /\ ProblemArchive(PathA, WRONG_FORMAT) \in Range(archives)

\* C1: under a supported game activeProblems returns, and the archives it
\* stores are exactly the enumerated files that are no regular file, or have
\* another extension than the game, or another header format than the game.
C1_ReportedIffIncompatible ==
    (last.op = "activeProblems" /\ game \in supportedGames) =>
        /\ ret.kind = "return"
        /\ \A i \in DOMAIN files :
              (\E j \in DOMAIN archives : archives[j].path = files[i].path)
                  <=> \/ ~files[i].isFile
                      \/ PathSuffix(files[i].path) # gameToExt[game]
                      \/ HeaderFormat(files[i].data) # gameToFmt[game]
        /\ \A j \in DOMAIN archives : archives[j].path \in PathsOf(files)
        /\ Range(ret.val) = {archives[j].problem : j \in DOMAIN archives}

\* Of two enumerated files under Fallout 4 VR, the .ba2 file with the BTDX
\* header is not reported and the directory is.
C1_Witness ==
    /\ Listed
    /\ game = "Fallout 4 VR"
    /\ Len(files) = 2
    /\ \E i \in DOMAIN files :
          /\ files[i].isFile
          /\ PathSuffix(files[i].path) = <<".", "b", "a", "2">>
          /\ files[i].data = <<66, 84, 68, 88>>
    /\ Len(archives) = 1
    /\ archives[1].problem = NOT_A_FILE

\* The calls of the plugin interface.
PluginCalls ==
    {"init", "activeProblems", "shortDescription", "fullDescription",
     "hasGuidedFix", "startGuidedFix"}

\* The archives a scan of list under game g stores when it returns.
RECURSIVE Fresh(_, _)
Fresh(list, g) ==
    IF list = <<>> THEN <<>>
    ELSE (IF validateArchive(list[1], g).val # NONE
          THEN <<ProblemArchive(list[1].path, validateArchive(list[1], g).val)>>
          ELSE <<>>) \o Fresh(Tail(list), g)

\* The positions of the stored archives with a problem, in increasing order.
RECURSIVE Positions(_, _)
Positions(key, from) ==
    IF from > Len(archives) THEN <<>>
    ELSE (IF archives[from].problem = key THEN <<from>> ELSE <<>>)
         \o Positions(key, from + 1)

\* The text after the description: the opening bullet, then the names with
\* a bullet between them.
RECURSIVE Bulleted(_, _)
Bulleted(key, at) ==
    IF at > Len(Positions(key, 1)) THEN <<>>
    ELSE <<IF at = 1 THEN "<br><br>*  " ELSE "<br>*  ">>
         \o PathName(archives[Positions(key, 1)[at]].path)
         \o Bulleted(key, at + 1)

Listing(key) ==
    IF Positions(key, 1) = <<>> THEN <<"<br><br>*  ">> ELSE Bulleted(key, 1)

\* C4: no call of the plugin changes the files, their order, names, kinds or
\* bytes: after each call they are what the call found; and the only
\* accesses a call makes are is_file, stat, open for reading and read.
C4_FilesUntouched ==
    last.op \in PluginCalls =>
        /\ files = before.files
        /\ \A k \in DOMAIN io :
              io[k].ev \in {"validateArchive", "Problem", "getFileFormat",
                            "FileFormat", "is_file", "stat", "rb", "read"}

\* After a scan that opened and read a file, the file still holds its bytes.
C4_Witness ==
    /\ Listed
    /\ \E i \in DOMAIN files :
          /\ files[i].data = BSA104
          /\ Len(EventsAt("read", files[i].path)) = 2
          /\ EventsAt("rb", files[i].path) # <<>>

\* C5: in one scan the validations are of the enumerated files, one each, in
\* enumeration order, each ended before the next begins, and the sniffer
\* runs at most once per file; when the scan returns every file was
\* validated and the list stored is, in the same order, the files whose
\* validation gave another problem than NONE.
C5_OncePerFileInOrder ==
    Scanned =>
        LET calls == Events({"validateArchive"})
            results == Events({"Problem"})
            steps == Events({"validateArchive", "Problem"})
            bad == SelectSeq(results, LAMBDA e : e.out # NONE)
        IN  /\ Len(calls) <= Len(files)
            /\ \A k \in DOMAIN calls : calls[k].path = files[k].path
            /\ \A k \in DOMAIN steps :
                  /\ steps[k].ev = IF k % 2 = 1 THEN "validateArchive" ELSE "Problem"
                  /\ steps[k].path = files[(k + 1) \div 2].path
            /\ \A i \in DOMAIN files :
                  Len(EventsAt("getFileFormat", files[i].path)) <= 1
            /\ Listed =>
                  /\ Len(calls) = Len(files)
                  /\ Len(results) = Len(files)
                  /\ archives = [k \in DOMAIN bad |->
                                    ProblemArchive(bad[k].path, bad[k].out)]

\* A scan of two files stored both, one of them after sniffing it.
C5_Witness ==
    /\ Listed
    /\ Len(files) >= 2
    /\ Len(archives) = 2
    /\ archives[1].path = files[1].path
    /\ archives[1].problem # archives[2].problem
    /\ Events({"getFileFormat"}) # <<>>

\* C6: a scan that returns stores the list the files and the game give, in
\* place of the list stored before, and returns the problems of that list;
\* every archive it stores is an enumerated file that fails validation; a
\* scan right after a scan that returned stores the same list and returns
\* the same set of keys.
C6_Stateless ==
    Listed =>
        /\ archives = Fresh(files, game)
        /\ Range(ret.val) = {Fresh(files, game)[j].problem :
                                j \in DOMAIN Fresh(files, game)}
        /\ \A j \in DOMAIN archives :
              /\ archives[j].path \in PathsOf(files)
              /\ validateArchive(FileAt(archives[j].path), game).val # NONE
        /\ before.listed =>
              /\ archives = before.archives
              /\ Range(ret.val) = before.keys

\* A scan replaced a list that held an archive which is still enumerated and
\* is not in the new list, which holds another archive.
C6_Witness ==
    /\ Listed
    /\ archives # <<>>
    /\ \E j \in DOMAIN before.archives :
          /\ before.archives[j].path \in PathsOf(files)
          /\ \A k \in DOMAIN archives : archives[k].path # before.archives[j].path

\* C8: no stored archive has the problem NONE; the keys a scan returns are
\* pairwise distinct and are exactly the problems of the stored archives;
\* shortDescription and fullDescription return for each problem stored; and
\* fullDescription(key) is the long description followed by the names of the
\* stored archives with that problem, in the order stored, which after a
\* scan is the order of the enumeration (no name when nothing is stored).
C8_StoredAndDescribed ==
    /\ \A j \in DOMAIN archives :
          archives[j].problem \in {NOT_A_FILE, WRONG_EXTENSION, WRONG_FORMAT}
    /\ Listed =>
          /\ \A a, b \in DOMAIN ret.val : ret.val[a] = ret.val[b] => a = b
          /\ Range(ret.val) \subseteq {NOT_A_FILE, WRONG_EXTENSION, WRONG_FORMAT}
          /\ \A key \in Problem :
                key \in Range(ret.val)
                    <=> \E j \in DOMAIN archives : archives[j].problem = key
          /\ \E at \in [DOMAIN archives -> DOMAIN files] :
                /\ \A j \in DOMAIN archives : files[at[j]].path = archives[j].path
                /\ \A i, j \in DOMAIN archives : i < j => at[i] < at[j]
    /\ (/\ last.op \in {"shortDescription", "fullDescription"}
        /\ \E j \in DOMAIN archives : archives[j].problem = last.key)
          => ret.kind = "return"
    /\ (last.op = "fullDescription" /\ ret.kind = "return") =>
          ret.val = descriptions[last.key].long \o Listing(last.key)

\* fullDescription listed the one archive stored with the key asked for and
\* not the archive stored with another problem.
C8_Witness ==
    /\ last.op = "fullDescription"
    /\ ret.kind = "return"
    /\ Len(archives) = 2
    /\ archives[1].problem # last.key
    /\ archives[2].problem = last.key
    /\ ret.val = descriptions[last.key].long \o <<"<br><br>*  ">>
                     \o PathName(archives[2].path)

\* C9: shortDescription and fullDescription raise IndexError for NONE and
\* return for the three other problems; hasGuidedFix returns False for those
\* three and raises IndexError for NONE; startGuidedFix raises ValueError for
\* every key; after each of the four the list stored is the list it found.
C9_KeyHandling ==
    last.op \in {"shortDescription", "fullDescription", "hasGuidedFix",
                 "startGuidedFix"} =>
        /\ archives = before.archives
        /\ last.op \in {"shortDescription", "fullDescription"} =>
              /\ last.key = NONE => ret.kind = "IndexError"
              /\ last.key \in {NOT_A_FILE, WRONG_EXTENSION, WRONG_FORMAT}
                    => ret.kind = "return" /\ ret.val # <<>>
        /\ last.op = "shortDescription" /\ ret.kind = "return" =>
              ret.val = descriptions[last.key].short
        /\ last.op = "hasGuidedFix" =>
              /\ last.key = NONE => ret.kind = "IndexError"
              /\ last.key \in {NOT_A_FILE, WRONG_EXTENSION, WRONG_FORMAT}
                    => ret = Return(FALSE)
        /\ last.op = "startGuidedFix" => ret.kind = "ValueError"

\* hasGuidedFix(NONE) raised IndexError with archives stored.
C9_Witness ==
    /\ last = Call("hasGuidedFix", NONE)
    /\ ret.kind = "IndexError"
    /\ archives # <<>>

====
